---- MODULE Spec2Model ----
(***************************************************************************)
(* WinClean rules packer (src/packer/main.rs): pack a directory of YAML    *)
(* rule documents into one binary package, unpack it again, show its info. *)
(*                                                                         *)
(* Rust Strings are modelled as sequences of bytes (ASCII), so that the    *)
(* bincode encoding and the zstd framing work on the very same bytes.      *)
(* One run is: pack_rules on an input directory, then unpack_rules or      *)
(* show_info on a package file.  The failures modelled are those of the    *)
(* input (GlobError, unreadable or unparsable document, unsupported        *)
(* algorithm, missing or malformed package file) and of the final          *)
(* fs::write of pack; create_dir_all and the writes of unpack succeed.     *)
(***************************************************************************)
EXTENDS Integers, Sequences, FiniteSets, TLC

VARIABLES
    tree,        \* the entries glob yields for <input>/*/*.yaml, in glob order
    compress,    \* the --compress argument of pack
    now,         \* SystemTime::now() in whole seconds, read by pack
    files,       \* package files on disk: path name -> <<"absent">> | <<"file", bytes>>
    parentDir,   \* TRUE once create_dir_all(output.parent()) ran
    pc,          \* position of the running command
    idx,         \* number of loop iterations done (pack: entries, unpack: rules)
    rules,       \* pack_rules: let mut rules
    categories,  \* pack_rules: let mut categories
    packed,      \* pack_rules: let package, <<>> until assembled, then <<package>>
    packResult,  \* result of pack_rules: "none" | "ok" | an error kind
    input,       \* the --input path of unpack / info
    buf,         \* reader: the bytes read, then the decompressed bytes
    pkg,         \* reader: the decoded package, <<>> until decoded, then <<package>>
    cmd,         \* the reading command that ran: "none" | "unpack" | "info"
    readResult,  \* result of unpack_rules / show_info: "none" | "ok" | an error kind
    outExists,   \* the output directory of unpack exists
    outDirs,     \* category directories existing under the output directory
    outFiles,    \* files under the output directory: set of <<category, filename, content>>
    outBefore,   \* <<outExists, outDirs, outFiles>> as they were before any command ran
    report,      \* what the command printed: <<rule count reported, rules listed/written>>
    doc,         \* extractor run: the parsed document handed to the extractor
    extracted    \* extractor run: <<"none">> or <<"some", metadata, paths, registry>>

vars == <<tree, compress, now, files, parentDir, pc, idx, rules, categories, packed,
          packResult, input, buf, pkg, cmd, readResult, outExists, outDirs, outFiles,
          outBefore, report, doc, extracted>>

(***************************************************************************)
(* Bounds of the model.                                                    *)
(***************************************************************************)
MaxFiles == 2      \* most entries the glob yields
MaxSeq == 2        \* longest YAML sequence handed to the extractor run

(***************************************************************************)
(* String literals of the program, as bytes.                               *)
(***************************************************************************)
EmptyStr == <<>>                                              \* ""
LowStr == <<108, 111, 119>>                                   \* "low"
StarStr == <<42>>                                             \* "*"
DeleteKeyStr == <<100, 101, 108, 101, 116, 101, 95, 107, 101, 121>>  \* "delete_key"
ZstdStr == <<122, 115, 116, 100>>                             \* "zstd"
NoneStr == <<110, 111, 110, 101>>                             \* "none"
Rot13Str == <<114, 111, 116, 49, 51>>                         \* "rot13", an unsupported name

(***************************************************************************)
(* Option<T>.                                                              *)
(***************************************************************************)
None == <<"none">>
Some(x) == <<"some", x>>
IsSome(o) == o[1] = "some"

(***************************************************************************)
(* serde_yaml::Value: <<"null">>, <<"num", n>>, <<"str", bytes>>,           *)
(* <<"seq", sequence of values>>, <<"map", function from field name to      *)
(* value>> (a field that is absent is not in the function's domain).       *)
(***************************************************************************)
Null == <<"null">>
Num(n) == <<"num", n>>
Str(s) == <<"str", s>>
SeqV(q) == <<"seq", q>>
MapV(m) == <<"map", m>>

\* Value::as_str
as_str(v) == IF v[1] = "str" THEN Some(v[2]) ELSE None

\* Value::as_sequence
as_sequence(v) == IF v[1] = "seq" THEN Some(v[2]) ELSE None

\* Value::get(key): None unless the value is a mapping holding the key
get(v, key) == IF v[1] = "map" /\ key \in DOMAIN v[2] THEN Some(v[2][key]) ELSE None

\* value[key]: Index never fails, it yields Null where get yields None
Index(v, key) == IF IsSome(get(v, key)) THEN get(v, key)[2] ELSE Null

\* Option::unwrap_or
unwrap_or(o, d) == IF IsSome(o) THEN o[2] ELSE d

\* FilterStrings keeping every element (a non-string as the empty string)
RECURSIVE FilterStringsKeepsAll(_)
FilterStringsKeepsAll(s) ==
    IF s = <<>> THEN <<>>
    ELSE <<unwrap_or(as_str(Head(s)), EmptyStr)>> \o FilterStringsKeepsAll(Tail(s))

\* iter().filter_map(|v| v.as_str()).collect(), and the push loop over match.path
RECURSIVE FilterStrings(_)
FilterStrings(s) ==
    IF s = <<>> THEN <<>>
    ELSE LET h == as_str(Head(s))
         IN  (IF IsSome(h) THEN <<h[2]>> ELSE <<>>) \o FilterStrings(Tail(s))

\* extract_metadata(path, rule); path is <<category directory, file name>> under
\* the input directory (glob yields only UTF-8 names, so to_str never fails)
extract_metadata(path, rule) ==
    [ id          |-> unwrap_or(as_str(Index(rule, "id")), EmptyStr),
      name        |-> unwrap_or(as_str(Index(rule, "name")), EmptyStr),
      risk        |-> unwrap_or(as_str(Index(rule, "risk")), LowStr),
      systeminfo  |-> LET s == as_sequence(Index(rule, "systeminfo"))
                      IN  IF IsSome(s) THEN FilterStrings(s[2]) ELSE <<>>,
      update      |-> unwrap_or(as_str(Index(rule, "update")), EmptyStr),
      author      |-> as_str(Index(rule, "author")),
      description |-> as_str(Index(rule, "description")),
      category    |-> path[1],
      filename    |-> path[2] ]

\* RegistryEntryOf with the key defaulting to "" like the path
RegistryEntryOfEmptyKey(r) ==
    [ path       |-> unwrap_or(as_str(Index(r, "path")), EmptyStr),
      key        |-> unwrap_or(as_str(Index(r, "key")), EmptyStr),
      value      |-> as_str(Index(r, "value")),
      value_data |-> as_str(Index(r, "value_data")),
      action     |-> unwrap_or(as_str(Index(r, "action")), DeleteKeyStr) ]

\* the RegistryEntry built from one element of match.registry
RegistryEntryOf(r) ==
    [ path       |-> unwrap_or(as_str(Index(r, "path")), EmptyStr),
      key        |-> unwrap_or(as_str(Index(r, "key")), StarStr),
      value      |-> as_str(Index(r, "value")),
      value_data |-> as_str(Index(r, "value_data")),
      action     |-> unwrap_or(as_str(Index(r, "action")), DeleteKeyStr) ]

\* extract_matches(rule): <<paths, registry>>
extract_matches(rule) ==
    LET m == get(rule, "match")
        p == IF IsSome(m) THEN get(m[2], "path") ELSE None
        g == IF IsSome(m) THEN get(m[2], "registry") ELSE None
        pa == IF IsSome(p) THEN as_sequence(p[2]) ELSE None
        ga == IF IsSome(g) THEN as_sequence(g[2]) ELSE None
    IN  << IF IsSome(pa) THEN FilterStrings(pa[2]) ELSE <<>>,
           IF IsSome(ga) THEN [i \in 1..Len(ga[2]) |-> RegistryEntryOf(ga[2][i])]
                         ELSE <<>> >>

(***************************************************************************)
(* bincode (fixed-width little-endian integers, u64 length prefixes, one   *)
(* tag byte per Option).  Integers of the model stay below 2^31, so the    *)
(* upper four bytes of a u64 are zero.                                     *)
(***************************************************************************)
U32(n) == << n % 256, (n \div 256) % 256, (n \div 65536) % 256, (n \div 16777216) % 256 >>
U64(n) == U32(n) \o <<0, 0, 0, 0>>

RECURSIVE Concat(_)
Concat(ss) == IF ss = <<>> THEN <<>> ELSE Head(ss) \o Concat(Tail(ss))

EncStr(s) == U64(Len(s)) \o s
EncVecStr(v) == U64(Len(v)) \o Concat([i \in 1..Len(v) |-> EncStr(v[i])])
\* EncOptStr writing nothing for an absent value
EncOptStrNoTag(o) == IF IsSome(o) THEN <<1>> \o EncStr(o[2]) ELSE <<>>

\* Option<String>
EncOptStr(o) == IF IsSome(o) THEN <<1>> \o EncStr(o[2]) ELSE <<0>>

\* struct RuleMetadata, fields in declaration order
EncMetadata(m) ==
    EncStr(m.id) \o EncStr(m.name) \o EncStr(m.risk) \o EncVecStr(m.systeminfo)
    \o EncStr(m.update) \o EncOptStr(m.author) \o EncOptStr(m.description)
    \o EncStr(m.category) \o EncStr(m.filename)

\* struct RegistryEntry
EncRegistryEntry(e) ==
    EncStr(e.path) \o EncStr(e.key) \o EncOptStr(e.value) \o EncOptStr(e.value_data)
    \o EncStr(e.action)

\* struct SerializedRule
EncRule(r) ==
    EncMetadata(r.metadata) \o EncStr(r.yaml_content) \o EncVecStr(r.paths)
    \o U64(Len(r.registry_entries))
    \o Concat([i \in 1..Len(r.registry_entries) |-> EncRegistryEntry(r.registry_entries[i])])

\* struct RulesPackageHeader
EncHeader(h) ==
    U32(h.version) \o U64(h.created_at) \o U64(h.rule_count) \o EncStr(h.compression)
    \o EncVecStr(h.categories)

\* bincode::serialize(&package)
Encode(p) ==
    EncHeader(p.header) \o U64(Len(p.rules))
    \o Concat([i \in 1..Len(p.rules) |-> EncRule(p.rules[i])])

(***************************************************************************)
(* bincode::deserialize.  A reader takes the bytes and the result of the   *)
(* reader before it, [ok, val, pos] with pos the next unread byte, and     *)
(* fails when that failed or the bytes run out.  Trailing bytes after the  *)
(* package are accepted, as bincode::deserialize accepts them.             *)
(***************************************************************************)
Fail == [ok |-> FALSE, val |-> <<>>, pos |-> 0]
Start == [ok |-> TRUE, val |-> <<>>, pos |-> 1]

RdU32(b, r) ==
    IF ~r.ok \/ r.pos + 3 > Len(b) \/ b[r.pos + 3] >= 128 THEN Fail
    ELSE [ok |-> TRUE, pos |-> r.pos + 4,
          val |-> b[r.pos] + 256 * b[r.pos + 1] + 65536 * b[r.pos + 2]
                  + 16777216 * b[r.pos + 3]]

\* the upper half of a u64, after its lower half lo (zero in the model's range)
UpperHalf(b, lo) ==
    IF ~lo.ok \/ lo.pos + 3 > Len(b) THEN Fail
    ELSE IF \E i \in 0..3 : b[lo.pos + i] # 0 THEN Fail
    ELSE [lo EXCEPT !.pos = lo.pos + 4]

RdU64(b, r) == UpperHalf(b, RdU32(b, r))

\* the bytes of a String of length n.val: valid UTF-8 (ASCII in the model)
StrBytes(b, n) ==
    IF ~n.ok \/ n.pos + n.val - 1 > Len(b) THEN Fail
    ELSE IF \E i \in n.pos .. (n.pos + n.val - 1) : b[i] >= 128 THEN Fail
    ELSE [ok |-> TRUE, pos |-> n.pos + n.val,
          val |-> SubSeq(b, n.pos, n.pos + n.val - 1)]

RdStr(b, r) == StrBytes(b, RdU64(b, r))

SomeOf(s) == IF s.ok THEN [s EXCEPT !.val = Some(s.val)] ELSE Fail

\* Option<String>: tag 0 or 1
RdOptStr(b, r) ==
    IF ~r.ok \/ r.pos > Len(b) THEN Fail
    ELSE IF b[r.pos] = 0 THEN [ok |-> TRUE, pos |-> r.pos + 1, val |-> None]
    ELSE IF b[r.pos] = 1 THEN SomeOf(RdStr(b, [r EXCEPT !.pos = r.pos + 1]))
    ELSE Fail

\* element e read after the elements r.val: the elements with e appended
Push(r, e) == IF e.ok THEN [e EXCEPT !.val = Append(r.val, e.val)] ELSE Fail

RECURSIVE RdStrN(_, _, _)
RdStrN(b, r, n) ==   \* n more strings, appended to r.val
    IF ~r.ok \/ n = 0 THEN r ELSE RdStrN(b, Push(r, RdStr(b, r)), n - 1)

StrElems(b, n) == IF n.ok THEN RdStrN(b, [n EXCEPT !.val = <<>>], n.val) ELSE Fail

\* Vec<String>: length, then the strings
RdVecStr(b, r) == StrElems(b, RdU64(b, r))

\* a struct is read field by field into r.val, a record under construction
Struct(r) == IF r.ok THEN [r EXCEPT !.val = <<>>] ELSE Fail
Put(r, name, f) ==
    IF f.ok THEN [f EXCEPT !.val = r.val @@ (name :> f.val)] ELSE Fail
\* the next field of the struct, by its type
FieldU32(b, name, r) == Put(r, name, RdU32(b, r))
FieldU64(b, name, r) == Put(r, name, RdU64(b, r))
FieldStr(b, name, r) == Put(r, name, RdStr(b, r))
FieldOptStr(b, name, r) == Put(r, name, RdOptStr(b, r))
FieldVecStr(b, name, r) == Put(r, name, RdVecStr(b, r))

\* struct RuleMetadata (the innermost field is read first)
RdMetadata(b, r) ==
    FieldStr(b, "filename",
    FieldStr(b, "category",
    FieldOptStr(b, "description",
    FieldOptStr(b, "author",
    FieldStr(b, "update",
    FieldVecStr(b, "systeminfo",
    FieldStr(b, "risk",
    FieldStr(b, "name",
    FieldStr(b, "id", Struct(r))))))))))

\* struct RegistryEntry
RdRegistryEntry(b, r) ==
    FieldStr(b, "action",
    FieldOptStr(b, "value_data",
    FieldOptStr(b, "value",
    FieldStr(b, "key",
    FieldStr(b, "path", Struct(r))))))

RECURSIVE RdRegistryN(_, _, _)
RdRegistryN(b, r, n) ==
    IF ~r.ok \/ n = 0 THEN r ELSE RdRegistryN(b, Push(r, RdRegistryEntry(b, r)), n - 1)

RegistryElems(b, n) ==
    IF n.ok THEN RdRegistryN(b, [n EXCEPT !.val = <<>>], n.val) ELSE Fail

RdVecRegistry(b, r) == RegistryElems(b, RdU64(b, r))

FieldVecRegistry(b, name, r) == Put(r, name, RdVecRegistry(b, r))

\* struct SerializedRule
RdRule(b, r) ==
    FieldVecRegistry(b, "registry_entries",
    FieldVecStr(b, "paths",
    FieldStr(b, "yaml_content",
    Put(Struct(r), "metadata", RdMetadata(b, r)))))

RECURSIVE RdRuleN(_, _, _)
RdRuleN(b, r, n) ==
    IF ~r.ok \/ n = 0 THEN r ELSE RdRuleN(b, Push(r, RdRule(b, r)), n - 1)

RuleElems(b, n) == IF n.ok THEN RdRuleN(b, [n EXCEPT !.val = <<>>], n.val) ELSE Fail

\* Vec<SerializedRule>: the rules are read up to their own length prefix,
\* whatever header.rule_count says
RdVecRule(b, r) == RuleElems(b, RdU64(b, r))

\* struct RulesPackageHeader
RdHeader(b, r) ==
    FieldVecStr(b, "categories",
    FieldStr(b, "compression",
    FieldU64(b, "rule_count",
    FieldU64(b, "created_at",
    FieldU32(b, "version", Struct(r))))))

FieldVecRule(b, name, r) == Put(r, name, RdVecRule(b, r))

\* struct RulesPackage
RdPackage(b, r) ==
    FieldVecRule(b, "rules",
    Put(Struct(r), "header", RdHeader(b, r)))

\* bincode::deserialize::<RulesPackage>(bytes): [ok, val]
Decode(b) == [ok |-> RdPackage(b, Start).ok, val |-> RdPackage(b, Start).val]

(***************************************************************************)
(* zstd.  A frame is the magic number 28 B5 2F FD followed by blocks; a    *)
(* block is a 3-byte little-endian header (bit 0: last block, bits 1-2:    *)
(* block type, bits 3-23: size) and its content.  The compressor of the    *)
(* model stores the data in one raw block (type 0), as zstd does for data  *)
(* it cannot shrink; the entropy coding of the format is not modelled.     *)
(***************************************************************************)
ZstdMagic == <<40, 181, 47, 253>>

BlockHeader(last, type, size) ==
    LET h == size * 8 + type * 2 + last
    IN  << h % 256, (h \div 256) % 256, (h \div 65536) % 256 >>

\* zstd::stream::Encoder::new(Vec::new(), 0), write_all(bytes), finish()
ZstdCompress(b) == ZstdMagic \o BlockHeader(1, 0, Len(b)) \o b

\* zstd::stream::Decoder::new(&bytes[..]): allocates the decoder context and wraps
\* the reader; it reads no byte of the input, so it succeeds whatever the bytes are
ZstdDecoderNew(b) == TRUE

RECURSIVE ZstdReadBlocks(_, _, _)
ZstdReadBlocks(b, i, acc) ==   \* the blocks of one frame from b[i]: [ok, val, pos]
    IF i + 2 > Len(b) THEN Fail
    ELSE LET h == b[i] + 256 * b[i + 1] + 65536 * b[i + 2]
             size == h \div 8
         IN  IF (h \div 2) % 4 # 0 \/ i + 2 + size > Len(b) THEN Fail
             ELSE IF h % 2 = 1
                  THEN [ok |-> TRUE, val |-> acc \o SubSeq(b, i + 3, i + 2 + size),
                        pos |-> i + 3 + size]
             ELSE ZstdReadBlocks(b, i + 3 + size, acc \o SubSeq(b, i + 3, i + 2 + size))

RECURSIVE ZstdReadFrames(_, _, _)
ZstdReadFrames(b, i, acc) ==   \* frames until the input ends
    IF i > Len(b) THEN [ok |-> TRUE, val |-> acc]
    ELSE IF i + 3 > Len(b) \/ SubSeq(b, i, i + 3) # ZstdMagic
         THEN [ok |-> FALSE, val |-> <<>>]     \* "Unknown frame descriptor"
    ELSE LET f == ZstdReadBlocks(b, i + 4, acc)
         IN  IF f.ok THEN ZstdReadFrames(b, f.pos, f.val)
             ELSE [ok |-> FALSE, val |-> <<>>]

\* decoder.read_to_end(&mut decompressed): [ok, val]
ZstdReadToEnd(b) == ZstdReadFrames(b, 1, <<>>)

\* the "解压" step of unpack_rules and show_info: [ok, val]
Decompress(b) ==
    IF ZstdDecoderNew(b) THEN ZstdReadToEnd(b)       \* read_to_end(..)?
    ELSE [ok |-> TRUE, val |-> b]                    \* compressed.clone()

(***************************************************************************)
(* The rule documents of the model and serde_yaml::from_str on them.       *)
(***************************************************************************)
\* id: r1 / author: me / systeminfo: [w, 7] /
\* match: {path: [p, 1], registry: [{path: k, value: v}, x]}
Doc1Text ==
    <<105, 100, 58, 32, 114, 49, 10, 97, 117, 116, 104, 111, 114, 58, 32, 109, 101, 10,
      115, 121, 115, 116, 101, 109, 105, 110, 102, 111, 58, 32, 91, 119, 44, 32, 55, 93,
      10, 109, 97, 116, 99, 104, 58, 32, 123, 112, 97, 116, 104, 58, 32, 91, 112, 44, 32,
      49, 93, 44, 32, 114, 101, 103, 105, 115, 116, 114, 121, 58, 32, 91, 123, 112, 97,
      116, 104, 58, 32, 107, 44, 32, 118, 97, 108, 117, 101, 58, 32, 118, 125, 44, 32,
      120, 93, 125, 10>>
Doc1Value ==
    MapV([ id |-> Str(<<114, 49>>), author |-> Str(<<109, 101>>),
           systeminfo |-> SeqV(<<Str(<<119>>), Num(7)>>),
           match |-> MapV([ path |-> SeqV(<<Str(<<112>>), Num(1)>>),
                            registry |-> SeqV(<< MapV([path |-> Str(<<107>>),
                                                       value |-> Str(<<118>>)]),
                                                 Str(<<120>>) >>) ]) ])

\* id: r1 / risk: high   (the same id as document 1)
Doc2Text == <<105, 100, 58, 32, 114, 49, 10, 114, 105, 115, 107, 58, 32, 104, 105, 103, 104, 10>>
Doc2Value == MapV([ id |-> Str(<<114, 49>>), risk |-> Str(<<104, 105, 103, 104>>) ])

\* "id: [" does not parse
BadText == <<105, 100, 58, 32, 91>>

\* a file that is not UTF-8
BinaryText == <<255>>

\* fs::read_to_string: the bytes, if they are UTF-8 (ASCII in the model)
read_to_string(content) ==
    IF \A i \in 1..Len(content) : content[i] < 128 THEN Some(content) ELSE None

\* serde_yaml::from_str::<Value>
from_str(text) ==
    IF text = Doc1Text THEN Some(Doc1Value)
    ELSE IF text = Doc2Text THEN Some(Doc2Value)
    ELSE None

(***************************************************************************)
(* The input directory, as glob("<input>/*/*.yaml") reports it: entries in *)
(* alphabetical order of their paths.  An entry is a file (with content),  *)
(* a directory named *.yaml, or a path glob could not read (GlobError).    *)
(***************************************************************************)
CatA == <<97>>
CatB == <<98>>
FileX == <<120, 46, 121, 97, 109, 108>>    \* x.yaml
FileY == <<121, 46, 121, 97, 109, 108>>    \* y.yaml
AllPaths == << <<CatA, FileX>>, <<CatA, FileY>>, <<CatB, FileX>>, <<CatB, FileY>> >>

EntryKinds ==
    { <<"file", Doc1Text>>, <<"file", Doc2Text>>, <<"file", BadText>>,
      <<"file", BinaryText>>, <<"dir", <<>> >>, <<"globerr", <<>> >> }

RECURSIVE SortedSeq(_)
SortedSeq(S) ==
    IF S = {} THEN <<>>
    ELSE LET m == CHOOSE x \in S : \A y \in S : x <= y
         IN  <<m>> \o SortedSeq(S \ {m})

Trees ==
    UNION { { [i \in 1..Len(ps) |-> [path |-> AllPaths[ps[i]], kind |-> k[i][1],
                                     content |-> k[i][2]]]
              : k \in [1..Len(ps) -> EntryKinds] }
            : ps \in { SortedSeq(S) : S \in { T \in SUBSET (1..Len(AllPaths)) :
                                              Cardinality(T) <= MaxFiles } } }

(***************************************************************************)
(* Package files found on disk besides the one pack writes.                *)
(***************************************************************************)
Absent == <<"absent">>
File(b) == <<"file", b>>
\* a package variable holds <<>> or <<package>>
NoPackage == <<>>

\* a foreign package whose header counts two rules and that holds one
ForeignRule ==
    [ metadata |-> extract_metadata(<<CatB, FileY>>, Doc2Value), yaml_content |-> Doc2Text,
      paths |-> <<>>, registry_entries |-> <<>> ]
ForeignPackage ==
    [ header |-> [version |-> 1, created_at |-> 0, rule_count |-> 2,
                  compression |-> ZstdStr, categories |-> <<CatB>>],
      rules |-> <<ForeignRule>> ]

InputPaths == {"out.bin", "foreign.bin", "cut.bin"}

\* the stale file of an output directory that is not empty
StaleFile == <<CatA, FileX, <<115>> >>

(***************************************************************************)
(* Initial state: an input directory, the arguments of pack, the disk.     *)
(***************************************************************************)
Clock == {1700000000}

Init ==
    /\ tree \in Trees
    /\ compress \in {ZstdStr, NoneStr, Rot13Str}
    /\ now \in Clock
    /\ files = [p \in InputPaths |->
                  IF p = "foreign.bin" THEN File(ZstdCompress(Encode(ForeignPackage)))
                  ELSE IF p = "cut.bin"
                       THEN File(ZstdCompress(SubSeq(Encode(ForeignPackage), 1,
                                                     Len(Encode(ForeignPackage)) - 1)))
                  ELSE Absent]
    /\ parentDir = FALSE
    /\ pc = "start"
    /\ idx = 0
    /\ rules = <<>>
    /\ categories = <<>>
    /\ packed = NoPackage
    /\ packResult = "none"
    /\ input = "none"
    /\ buf = <<>>
    /\ pkg = NoPackage
    /\ cmd = "none"
    /\ readResult = "none"
    /\ outFiles \in {{}, {StaleFile}}
    /\ outExists = (outFiles # {})
    /\ outDirs = {f[1] : f \in outFiles}
    /\ outBefore = <<outExists, outDirs, outFiles>>
    /\ report = <<0, 0>>
    /\ doc = Null
    /\ extracted = None

(***************************************************************************)
(* pack_rules                                                              *)
(***************************************************************************)
Contains(s, x) == \E i \in 1..Len(s) : s[i] = x

\* SerializedRule keeping the document text without its last byte (trimmed)
SerializedRuleTrimmed(path, content, rule) ==
    [ metadata |-> extract_metadata(path, rule),
      yaml_content |-> SubSeq(content, 1, Len(content) - 1),
      paths |-> extract_matches(rule)[1], registry_entries |-> extract_matches(rule)[2] ]

\* one SerializedRule from a document that was read and parsed
SerializedRule(path, content, rule) ==
    [ metadata |-> extract_metadata(path, rule), yaml_content |-> content,
      paths |-> extract_matches(rule)[1], registry_entries |-> extract_matches(rule)[2] ]

\* PushRule dropping a rule whose id is already in the list
PushRuleUniqueId(rs, r) ==
    IF \E i \in 1..Len(rs) : rs[i].metadata.id = r.metadata.id THEN rs ELSE Append(rs, r)

\* rules.push(serialized)
PushRule(rs, r) == Append(rs, r)

\* RecordCategory without the contains test
RecordCategoryAlways(cats, c) == Append(cats, c)

\* "记录分类": push the category unless categories contains it
RecordCategory(cats, c) == IF Contains(cats, c) THEN cats ELSE Append(cats, c)

\* the header and the package built after the loop
MakePackage(rs, cats, comp, t) ==
    [ header |-> [version |-> 1, created_at |-> t, rule_count |-> Len(rs),
                  compression |-> comp, categories |-> cats],
      rules |-> rs ]

\* "压缩": the bytes to write, or None for an unsupported algorithm (bail!)
Compress(serialized, comp) ==
    IF comp = ZstdStr THEN Some(ZstdCompress(serialized))
    ELSE IF comp = NoneStr THEN Some(serialized)
    ELSE None

\* WriteOutput creating the output file before the algorithm is checked
WriteOutputFirst(fs, compressed) ==
    [fs EXCEPT !["out.bin"] = File(IF IsSome(compressed) THEN compressed[2] ELSE <<>>)]

\* the package files after "压缩" and fs::write(output, &compressed): bail! returns
\* before the write
WriteOutput(fs, compressed) ==
    IF IsSome(compressed) THEN [fs EXCEPT !["out.bin"] = File(compressed[2])] ELSE fs

\* the same when fs::write fails: the file was created, n of the bytes are in it
WriteOutputFails(fs, compressed, n) ==
    [fs EXCEPT !["out.bin"] = File(SubSeq(compressed[2], 1, n))]

inputVars == <<tree, compress, now, outBefore>>
packVars == <<parentDir, rules, categories, packed, packResult>>
readVars == <<input, buf, pkg, cmd, readResult, report>>
outVars == <<outExists, outDirs, outFiles>>
extractVars == <<doc, extracted>>

\* pack_rules up to the loop: create the parent directory of the output
PackBegin ==
    /\ pc = "start"
    /\ parentDir' = TRUE
    /\ pc' = "pack_loop"
    /\ UNCHANGED <<rules, categories, packed, packResult, files, idx>>
    /\ UNCHANGED <<inputVars, readVars, outVars, extractVars>>

\* one iteration of "for entry in glob(&pattern)?"
PackEntry ==
    /\ pc = "pack_loop"
    /\ idx < Len(tree)
    /\ \E e \in {tree[idx + 1]} : \E text \in {read_to_string(e.content)} :
         \E rule \in {IF IsSome(text) THEN from_str(text[2]) ELSE None} :
           \E err \in { IF e.kind = "globerr" THEN "discovery"          \* entry?
                        ELSE IF e.kind # "file" THEN "skip"             \* path.is_file()
                        ELSE IF ~IsSome(text) THEN "read"               \* read_to_string(..)?
                        ELSE IF ~IsSome(rule) THEN "parse"              \* from_str(..)?
                        ELSE "none" } :
              IF err = "none"
              THEN /\ rules' = PushRule(rules, SerializedRule(e.path, text[2], rule[2]))
                   /\ categories' = RecordCategory(categories, e.path[1])
                   /\ idx' = idx + 1
                   /\ UNCHANGED <<packResult, pc>>
              ELSE IF err = "skip"
              THEN idx' = idx + 1 /\ UNCHANGED <<rules, categories, packResult, pc>>
              ELSE /\ packResult' = err
                   /\ pc' = "packed"
                   /\ UNCHANGED <<rules, categories, idx>>
    /\ UNCHANGED <<parentDir, packed, files>>
    /\ UNCHANGED <<inputVars, readVars, outVars, extractVars>>

\* after the loop: header, package, serialize, compress, fs::write.  fs::write
\* creates (truncates) the file and then writes; when it fails, part of the
\* bytes may be on disk.
PackFinish ==
    /\ pc = "pack_loop"
    /\ idx = Len(tree)
    /\ packed' = <<MakePackage(rules, categories, compress, now)>>
    /\ \E compressed \in {Compress(Encode(packed'[1]), compress)} :
          \/ /\ files' = WriteOutput(files, compressed)
             /\ packResult' = IF IsSome(compressed) THEN "ok" ELSE "config"
          \/ /\ IsSome(compressed)
             /\ \E n \in {0, Len(compressed[2]) \div 2} :
                   files' = WriteOutputFails(files, compressed, n)
             /\ packResult' = "write"
    /\ pc' = "packed"
    /\ UNCHANGED <<parentDir, rules, categories, idx>>
    /\ UNCHANGED <<inputVars, readVars, outVars, extractVars>>

(***************************************************************************)
(* unpack_rules                                                            *)
(***************************************************************************)
\* Try going on after a failure
TryIgnore(ok, next) == next

\* the ? after a fallible step: go on when it succeeded, return the error otherwise
Try(ok, next) == IF ok THEN next ELSE "done"

\* let compressed = fs::read(input)?
UnpackRead ==
    /\ pc = "packed"
    /\ \E path \in InputPaths :
          /\ input' = path
          /\ buf' = IF files[path] = Absent THEN <<>> ELSE files[path][2]
          /\ pc' = Try(files[path] # Absent, "unpack_decompress")
          /\ readResult' = IF files[path] # Absent THEN readResult ELSE "io"
    /\ cmd' = "unpack"
    /\ idx' = 0
    /\ UNCHANGED <<pkg, report, files>>
    /\ UNCHANGED <<inputVars, packVars, outVars, extractVars>>

\* "解压"
UnpackDecompress ==
    /\ pc = "unpack_decompress"
    /\ \E d \in {Decompress(buf)} :
          /\ buf' = d.val
          /\ pc' = Try(d.ok, "unpack_decode")
          /\ readResult' = IF d.ok THEN readResult ELSE "decompress"
    /\ UNCHANGED <<input, pkg, cmd, report, files, idx>>
    /\ UNCHANGED <<inputVars, packVars, outVars, extractVars>>

\* "反序列化"
UnpackDecode ==
    /\ pc = "unpack_decode"
    /\ \E p \in {Decode(buf)} :
          /\ pkg' = IF p.ok THEN <<p.val>> ELSE NoPackage
          /\ pc' = Try(p.ok, "unpack_mkdir")
          /\ readResult' = IF p.ok THEN readResult ELSE "decode"
    /\ UNCHANGED <<input, buf, cmd, report, files, idx>>
    /\ UNCHANGED <<inputVars, packVars, outVars, extractVars>>

\* fs::create_dir_all(output)
UnpackMkdir ==
    /\ pc = "unpack_mkdir"
    /\ outExists' = TRUE
    /\ pc' = "unpack_loop"
    /\ UNCHANGED <<outDirs, outFiles, files, idx>>
    /\ UNCHANGED <<inputVars, packVars, readVars, extractVars>>

\* fs::write(path, content) under the output directory: replaces what is there
WriteFile(fs, cat, name, content) ==
    { f \in fs : ~(f[1] = cat /\ f[2] = name) } \cup { <<cat, name, content>> }

\* the rules of the package being unpacked (none when nothing was decoded)
RulesOf(p) == IF p = NoPackage THEN <<>> ELSE p[1].rules

\* one iteration of "for rule in &package.rules"
UnpackRule ==
    /\ pc = "unpack_loop"
    /\ idx < Len(RulesOf(pkg))
    /\ \E rule \in {pkg[1].rules[idx + 1]} :
          /\ outDirs' = outDirs \cup {rule.metadata.category}
          /\ outFiles' = WriteFile(outFiles, rule.metadata.category,
                                   rule.metadata.filename, rule.yaml_content)
    /\ idx' = idx + 1
    /\ UNCHANGED <<outExists, files, pc>>
    /\ UNCHANGED <<inputVars, packVars, readVars, extractVars>>

\* after the loop: print the rule count of the header
UnpackFinish ==
    /\ pc = "unpack_loop"
    /\ idx = Len(RulesOf(pkg))
    /\ report' = IF pkg = NoPackage THEN report ELSE <<pkg[1].header.rule_count, idx>>
    /\ readResult' = "ok"
    /\ pc' = "done"
    /\ UNCHANGED <<input, buf, pkg, cmd, files, idx>>
    /\ UNCHANGED <<inputVars, packVars, outVars, extractVars>>

(***************************************************************************)
(* show_info                                                               *)
(***************************************************************************)
\* read, decompress, decode: <<result, bytes, package>>
Decoded(bytes, p) ==
    IF p.ok THEN <<"ok", bytes, <<p.val>> >>
    ELSE <<"decode", bytes, NoPackage>>                                  \* deserialize(..)?
Decompressed(d) ==
    IF d.ok THEN Decoded(d.val, Decode(d.val))
    ELSE <<"decompress", <<>>, NoPackage>>                               \* read_to_end(..)?
Load(path) ==
    IF files[path] = Absent THEN <<"io", <<>>, NoPackage>>               \* fs::read(..)?
    ELSE Decompressed(Decompress(files[path][2]))

\* show_info: load, print the header's rule count, list every rule
ShowInfo ==
    /\ pc = "packed"
    /\ \E path \in InputPaths : \E l \in {Load(path)} :
          /\ input' = path
          /\ buf' = l[2]
          /\ pkg' = l[3]
          /\ readResult' = l[1]
          /\ report' = IF l[1] = "ok" THEN <<l[3][1].header.rule_count, Len(l[3][1].rules)>>
                       ELSE report
    /\ cmd' = "info"
    /\ pc' = "done"
    /\ UNCHANGED <<files, idx>>
    /\ UNCHANGED <<inputVars, packVars, outVars, extractVars>>

Next ==
    \/ PackBegin
    \/ PackEntry
    \/ PackFinish
    \/ UnpackRead
    \/ UnpackDecompress
    \/ UnpackDecode
    \/ UnpackMkdir
    \/ UnpackRule
    \/ UnpackFinish
    \/ ShowInfo

Spec == Init /\ [][Next]_vars

(***************************************************************************)
(* The extractor on its own: extract_metadata and extract_matches applied  *)
(* to one parsed document drawn from a bounded set of YAML values.         *)
(***************************************************************************)
Missing == <<"missing">>

\* the mapping holding the fields of c that are not Missing
MkMap(c) == MapV([k \in {x \in DOMAIN c : c[x] # Missing} |-> c[k]])

SeqsUpTo(S, n) == UNION { [1..k -> S] : k \in 0..n }

\* a field that should be a string: absent, a number, a string
Scalars == { Missing, Num(7), Str(<<115>>) }

\* a field that should be a sequence of strings: absent, a string, a sequence
\* mixing strings and numbers
Elems == { Str(<<119>>), Str(<<118>>), Num(7) }
SeqFields == { Missing, Str(<<115>>) } \cup { SeqV(q) : q \in SeqsUpTo(Elems, MaxSeq) }

\* an element of match.registry: a mapping, or a string where a mapping should be
RegistryMaps ==
    { MkMap(c) : c \in [path : Scalars, key : Scalars, value : Scalars,
                        value_data : Scalars, action : Scalars] }
FewRegistryElems ==
    { Str(<<120>>), MkMap([path |-> Str(<<107>>)]),
      MkMap([key |-> Str(<<107>>), action |-> Num(7)]) }
RegistryFields ==
    { Missing, Str(<<115>>), SeqV(<<>>) }
    \cup { SeqV(<<e>>) : e \in RegistryMaps \cup FewRegistryElems }
    \cup { SeqV(q) : q \in UNION { [1..k -> FewRegistryElems] : k \in 2..MaxSeq } }

\* the "match" field: absent, a string, a mapping with path and registry
MatchFields ==
    { Missing, Str(<<115>>) }
    \cup { MkMap([path |-> q, registry |-> Missing]) : q \in SeqFields }
    \cup { MkMap([path |-> Missing, registry |-> g]) : g \in RegistryFields }
    \cup { MkMap([path |-> SeqV(<<Num(7), Str(<<119>>)>>), registry |-> g])
           : g \in { SeqV(q) : q \in [1..2 -> FewRegistryElems] } }

ValueDocs ==
    { Null, Str(<<115>>), SeqV(<<Str(<<115>>)>>) }
    \cup { MkMap(c) : c \in [id : Scalars, name : Scalars, risk : Scalars, update : Scalars,
                             author : Scalars, description : Scalars] }
    \cup { MkMap([id |-> Str(<<115>>), systeminfo |-> q, match |-> m])
           : q \in SeqFields, m \in MatchFields }

InitExtract ==
    /\ doc \in ValueDocs
    /\ extracted = None
    /\ pc = "extract"
    /\ tree = <<>>
    /\ compress = ZstdStr
    /\ now = 0
    /\ files = [p \in InputPaths |-> Absent]
    /\ parentDir = FALSE
    /\ idx = 0
    /\ rules = <<>>
    /\ categories = <<>>
    /\ packed = NoPackage
    /\ packResult = "none"
    /\ input = "none"
    /\ buf = <<>>
    /\ pkg = NoPackage
    /\ cmd = "none"
    /\ readResult = "none"
    /\ outExists = FALSE
    /\ outDirs = {}
    /\ outFiles = {}
    /\ outBefore = <<outExists, outDirs, outFiles>>
    /\ report = <<0, 0>>

\* extract_metadata(&path, &rule)? and extract_matches(&rule)? on the document
Extract ==
    /\ pc = "extract"
    /\ \E path \in {AllPaths[1], AllPaths[4]} :
          extracted' = <<"some", extract_metadata(path, doc), extract_matches(doc)[1],
                         extract_matches(doc)[2]>>
    /\ pc' = "extracted"
    /\ UNCHANGED <<doc, files, idx>>
    /\ UNCHANGED <<inputVars, packVars, readVars, outVars>>

NextExtract == Extract

SpecExtract == InitExtract /\ [][NextExtract]_vars

(***************************************************************************)
(* Properties.                                                             *)
(***************************************************************************)
Range(q) == { q[i] : i \in 1..Len(q) }

\* the entries of the input directory that are files, in discovery order
IsFileEntry(e) == e.kind = "file"
FileEntries(t) == SelectSeq(t, IsFileEntry)

\* unpack of the package that pack wrote with zstd, into an empty output directory,
\* has ended well
RoundTripDone ==
    /\ packResult = "ok" /\ compress = ZstdStr
    /\ cmd = "unpack" /\ input = "out.bin" /\ readResult = "ok" /\ pc = "done"
    /\ outBefore[3] = {}

\* C1: after pack with zstd and unpack into an empty directory have both
\* succeeded, the files under the output directory are exactly
\* <category>/<filename> of the packed documents, each with the bytes of its
\* source document.
C1_PackUnpackReproduces ==
    RoundTripDone =>
        outFiles = { <<e.path[1], e.path[2], e.content>> : e \in Range(FileEntries(tree)) }

C1_Witness == RoundTripDone /\ Cardinality(outFiles) = 2

\* C2: for every package pack assembles, decoding its encoding gives the package
\* back field for field, and decompressing the zstd compression of its encoding
\* gives the encoding back.
C2_CodecInvertible ==
    packed # NoPackage =>
        /\ Decode(Encode(packed[1])) = [ok |-> TRUE, val |-> packed[1]]
        /\ Decompress(Compress(Encode(packed[1]), ZstdStr)[2])
             = [ok |-> TRUE, val |-> Encode(packed[1])]

C2_Witness ==
    /\ packed # NoPackage
    /\ Len(packed[1].rules) = 2
    /\ \E i \in 1..2 : /\ IsSome(packed[1].rules[i].metadata.author)
                       /\ ~IsSome(packed[1].rules[i].metadata.description)
                       /\ Len(packed[1].rules[i].registry_entries) = 2

\* C3: when unpack or info reads a package that pack wrote with compress = "none",
\* the decompression step leaves the bytes unchanged and the command does not fail
\* in decompression or decoding.
C3_AutoDetectsUncompressed ==
    ( /\ packResult = "ok" /\ compress = NoneStr
      /\ cmd # "none" /\ input = "out.bin" /\ pc # "unpack_decompress" )
    => /\ buf = files["out.bin"][2]
       /\ readResult \in {"none", "ok"}

\* C4: when pack fails for an unsupported compression name, a document that does
\* not parse, or a discovery or read failure, the output file does not exist.
C4_FailedPackLeavesNoFile ==
    packResult \in {"config", "parse", "discovery", "read"} => files["out.bin"] = Absent

C4_Witness ==
    /\ packResult = "config" /\ compress = Rot13Str
    /\ Len(packed[1].rules) = 1
    /\ parentDir /\ files["out.bin"] = Absent

\* the first rule of category c
FirstRule(c) ==
    CHOOSE k \in 1..Len(rules) :
        /\ rules[k].metadata.category = c
        /\ \A m \in 1..(k - 1) : rules[m].metadata.category # c

\* C5: after every iteration of the discovery loop, and in the assembled package,
\* categories has no repeated entry, holds exactly the categories of the rules
\* collected so far, and lists them in the order of their first rules.
C5_CategoriesFirstSeen ==
    /\ \A i, j \in 1..Len(categories) : i # j => categories[i] # categories[j]
    /\ Range(categories) = { rules[k].metadata.category : k \in 1..Len(rules) }
    /\ \A i, j \in 1..Len(categories) :
          i < j => FirstRule(categories[i]) < FirstRule(categories[j])
    /\ packed # NoPackage => packed[1].header.categories = categories /\ packed[1].rules = rules

C5_Witness ==
    /\ pc = "pack_loop" /\ idx = 2
    /\ Len(rules) = 2 /\ categories = <<CatA>>

\* C6: header.rule_count equals the number of rules in every package pack assembles
\* and in every package unpack or info decodes, so the count they report is the
\* number of rules they wrote or listed.
C6_RuleCountIsLength ==
    /\ packed # NoPackage => packed[1].header.rule_count = Len(packed[1].rules)
    /\ pkg # NoPackage => pkg[1].header.rule_count = Len(pkg[1].rules)
    /\ (cmd # "none" /\ readResult = "ok") => report[1] = report[2]

\* C7: after a successful pack the package holds one rule per discovered file, the
\* i-th rule made from the i-th file, rules with equal ids included.
C7_OneRulePerDocument ==
    packResult = "ok" =>
        /\ Len(packed[1].rules) = Len(FileEntries(tree))
        /\ \A i \in 1..Len(packed[1].rules) :
              /\ packed[1].rules[i].metadata.category = FileEntries(tree)[i].path[1]
              /\ packed[1].rules[i].metadata.filename = FileEntries(tree)[i].path[2]
              /\ packed[1].rules[i].yaml_content = FileEntries(tree)[i].content

C7_Witness ==
    /\ packResult = "ok"
    /\ Len(packed[1].rules) = 2
    /\ packed[1].rules[1].metadata.id = packed[1].rules[2].metadata.id
    /\ packed[1].rules[1].yaml_content # packed[1].rules[2].yaml_content

\* the document has a string at field k
HasStr(v, k) == v[1] = "map" /\ k \in DOMAIN v[2] /\ v[2][k][1] = "str"
\* the sequence at field k of the document, <<"none">> if there is none
SeqAt(v, k) ==
    IF v[1] = "map" /\ k \in DOMAIN v[2] /\ v[2][k][1] = "seq" THEN Some(v[2][k][2])
    ELSE None
MatchOf(v) == IF v[1] = "map" /\ "match" \in DOMAIN v[2] THEN v[2]["match"] ELSE Null

\* C8: extraction of a parsed document succeeds, and a field that is missing or
\* not a string yields its default: "" for id, name and update, "low" for risk,
\* no value for author and description, the empty sequence for a systeminfo that
\* is no sequence; every element of match.registry yields one entry, with key
\* "*", action "delete_key", path "" and no value / value_data by default.
C8_TolerantDefaults ==
    pc = "extracted" =>
        /\ extracted[1] = "some"
        /\ ~HasStr(doc, "id") => extracted[2].id = EmptyStr
        /\ ~HasStr(doc, "name") => extracted[2].name = EmptyStr
        /\ ~HasStr(doc, "update") => extracted[2].update = EmptyStr
        /\ ~HasStr(doc, "risk") => extracted[2].risk = LowStr
        /\ ~HasStr(doc, "author") => extracted[2].author = None
        /\ ~HasStr(doc, "description") => extracted[2].description = None
        /\ ~IsSome(SeqAt(doc, "systeminfo")) => extracted[2].systeminfo = <<>>
        /\ IsSome(SeqAt(MatchOf(doc), "registry")) =>
              /\ Len(extracted[4]) = Len(SeqAt(MatchOf(doc), "registry")[2])
              /\ \A i \in 1..Len(extracted[4]) :
                    \E r \in {SeqAt(MatchOf(doc), "registry")[2][i]} :
                       /\ ~HasStr(r, "key") => extracted[4][i].key = StarStr
                       /\ ~HasStr(r, "action") => extracted[4][i].action = DeleteKeyStr
                       /\ ~HasStr(r, "path") => extracted[4][i].path = EmptyStr
                       /\ ~HasStr(r, "value") => extracted[4][i].value = None
                       /\ ~HasStr(r, "value_data") => extracted[4][i].value_data = None

C8_Witness ==
    /\ pc = "extracted"
    /\ IsSome(SeqAt(MatchOf(doc), "registry"))
    /\ Len(extracted[4]) = 2
    /\ extracted[4][1].key = StarStr /\ extracted[4][1].action = DeleteKeyStr
    /\ extracted[4][2].path = EmptyStr /\ extracted[4][2].value = None
    /\ extracted[2].risk = LowStr /\ extracted[2].author = None

\* the positions of the strings in a sequence of values
StrPositions(q) == { i \in 1..Len(q) : q[i][1] = "str" }

\* res is the strings of q, in the order they have in q
IsStringsOf(res, q) ==
    /\ Len(res) = Cardinality(StrPositions(q))
    /\ \A i \in StrPositions(q) :
          res[Cardinality({ j \in StrPositions(q) : j <= i })] = q[i][2]

\* C9: the extracted systeminfo is the subsequence of the string elements of the
\* document's systeminfo sequence, and the extracted paths that of match.path, in
\* their original order.
C9_StringSubsequence ==
    pc = "extracted" =>
        /\ IsSome(SeqAt(doc, "systeminfo")) =>
              IsStringsOf(extracted[2].systeminfo, SeqAt(doc, "systeminfo")[2])
        /\ IsSome(SeqAt(MatchOf(doc), "path")) =>
              IsStringsOf(extracted[3], SeqAt(MatchOf(doc), "path")[2])

C9_Witness ==
    /\ pc = "extracted"
    /\ SeqAt(doc, "systeminfo") = Some(<<Num(7), Str(<<119>>)>>)
    /\ extracted[2].systeminfo = << <<119>> >>
    /\ SeqAt(MatchOf(doc), "path") = Some(<<Str(<<118>>), Num(7)>>)
    /\ extracted[3] = << <<118>> >>

\* the output files after the first k rules of rs were written over fs
RECURSIVE WrittenAfter(_, _, _)
WrittenAfter(fs, rs, k) ==
    IF k = 0 THEN fs
    ELSE WriteFile(WrittenAfter(fs, rs, k - 1), rs[k].metadata.category,
                   rs[k].metadata.filename, rs[k].yaml_content)

\* C10: as long as no package has been decoded (reading, decompression or decoding
\* still to come, or failed) the output directory and its contents are as they
\* were; after decoding, the files written are those of the first idx rules of the
\* package, in package order.
C10_NoWriteBeforeDecode ==
    /\ pkg = NoPackage => <<outExists, outDirs, outFiles>> = outBefore
    /\ (cmd = "unpack" /\ pkg # NoPackage) =>
          /\ outFiles = WrittenAfter(outBefore[3], pkg[1].rules, idx)
          /\ outDirs = outBefore[2] \cup { pkg[1].rules[k].metadata.category : k \in 1..idx }

C10_Witness ==
    /\ cmd = "unpack" /\ readResult = "decode" /\ pc = "done"
    /\ ~outBefore[1] /\ ~outExists /\ outFiles = {}

====
